---- MODULE Spec2Model ----
(***************************************************************************)
(* A model of the trivia server: the room registry and the TriviaRoom      *)
(* state machine (trivia-room.js), room membership (roombase.js, lobby.js, *)
(* user.js) and the question supplier with its session tokens              *)
(* (question-source.js).                                                   *)
(*                                                                         *)
(* Node's event loop runs one callback at a time, so every socket event,   *)
(* timer callback and promise continuation is one atomic action.  The      *)
(* actions interleave freely: the model keeps no clock, a timeout that is  *)
(* pending may fire at any later step.                                     *)
(***************************************************************************)
EXTENDS Integers, Sequences, FiniteSets, TLC

(* ------------------------------ bounds --------------------------------- *)

\* How many rooms makeNewRoom creates in a run (the startup room included).
MaxRooms == 2

\* How many questions the supplier hands out in a run, over all rooms; past
\* that its question requests only fail (the environment, not the code, is
\* what is bounded).
MaxQuestions == 2


\* The startup room counts down from this many seconds.  The source gives it
\* RoomConfiguration's default, 30; the countdown code is the same for every
\* length, and the model runs it on a short one.
StartupMaxSeconds == 2

\* How many right and how many wrong answers a member's statistics count,
\* at most, where compareStats and the final ranking are checked on their own.
MaxAnswered == 2

\* How many incorrect answers a question record holds, at most, where the
\* normalisation of a record is checked on its own.
MaxIncorrect == 2

(* ------------------------------ inputs --------------------------------- *)

\* The connections; a named user's nickname is the connection's name here
\* (isNicknameTaken keeps the nicknames of connected users distinct).
Users == {"alice", "bob"}

\* The ids generateId() returns, in order (collisions are not modelled).
IdPool == <<"AnyRm", "rmAAA", "rmBBB", "rmCCC">>

\* user.room is a room object, the lobby, or null.
NoRoom == "null"
LobbyId == "lobby"


\* The answer numbers a client sends with 'answer'.
AnswerInputs == {-1, 0, 7}

\* The tokens the token endpoint hands out.
TokenValues == {"tokA", "tokB"}

\* response.difficulty of a question record.
Difficulties == {"hard"}

\* The question records the question endpoint answers with.
RawResponses ==
    { [correct_answer |-> c, incorrect_answers |-> <<i>>, difficulty |-> d] :
        c \in {"True"}, i \in {"False"}, d \in Difficulties }

\* The values Math.floor(Math.random() * answers.length) takes in the shuffle
\* loop of one question, in order.
ShuffleChoices == { <<0, 0>> }

NoQuestion == [none |-> TRUE]

VARIABLES
    rooms,                    \* the ids in the registry map `rooms`
    room,                     \* every TriviaRoom object made so far, by id
    lobbyUsers,               \* lobby.users
    userRoom,                 \* user.room, per connection
    conn,                     \* "none" | "anon" (no nickname yet) | "named"
    pendingJoinRoomRequests,  \* the room id an anonymous user asked to join
    listeners,                \* rooms whose 'answer' closure is on the socket
    sessionTokens,            \* question-source's token cache, by room id
    pending,                  \* per room: request in flight and timeouts
    hist,                     \* per room: what it has emitted so far
    served,                   \* how many questions the supplier has handed out
    scope,                    \* what the environment does in this run (fixed)
    call                      \* a function applied on its own: name, arguments,
                              \* and the value returned once it has returned

vars == <<rooms, room, lobbyUsers, userRoom, conn, pendingJoinRoomRequests,
          listeners, sessionTokens, pending, hist, served, scope, call>>

(* ------------------------------ helpers -------------------------------- *)

\* Array.prototype.findIndex with an identity test: 0-based, -1 if absent.
FindIndex(seq, x) ==
    IF \E i \in 1..Len(seq) : seq[i] = x
    THEN (CHOOSE i \in 1..Len(seq) : seq[i] = x /\ \A j \in 1..(i-1) : seq[j] # x) - 1
    ELSE -1

\* Array.prototype.splice(index, 1): a negative index counts from the end.
Splice1(seq, index) ==
    LET start == IF index < 0 THEN (IF Len(seq) + index < 0 THEN 0 ELSE Len(seq) + index)
                 ELSE index
    IN  [k \in 1..(IF start < Len(seq) THEN Len(seq) - 1 ELSE Len(seq)) |->
            IF k <= start THEN seq[k] ELSE seq[k + 1]]

\* {}
EmptyMap == [k \in {} |-> TRUE]

\* `delete obj[key]`
Delete(f, key) == [k \in (DOMAIN f) \ {key} |-> f[k]]

\* `obj[key] = value`
Put(f, key, value) == [k \in (DOMAIN f) \cup {key} |-> IF k = key THEN value ELSE f[k]]

\* The history at the start of a handler that can publish events: nothing
\* published by it yet.
Quiet(h) == [id \in DOMAIN h |-> [h[id] EXCEPT !.published = <<>>]]

\* The state the nested handlers read and write, as one record.
Cur ==
    [rooms |-> rooms, room |-> room, lobbyUsers |-> lobbyUsers,
     userRoom |-> userRoom, listeners |-> listeners,
     sessionTokens |-> sessionTokens, pending |-> pending, hist |-> Quiet(hist)]

Install(s) ==
    /\ rooms' = s.rooms
    /\ room' = s.room
    /\ lobbyUsers' = s.lobbyUsers
    /\ userRoom' = s.userRoom
    /\ listeners' = s.listeners
    /\ sessionTokens' = s.sessionTokens
    /\ pending' = s.pending
    /\ hist' = s.hist

(* --------------------------- trivia-room.js ---------------------------- *)

\* new UserStatistics()
UserStatistics ==
    [points |-> 0, pointsChange |-> 0, questionsRight |-> 0,
     questionsWrong |-> 0, selectedAnswerIndex |-> -1]

\* new RoomConfiguration(category, difficulty, maxSeconds, canSkipQuestions,
\* numQuestions); category and difficulty only shape the request URL.
RoomConfiguration(maxSeconds, canSkipQuestions, numQuestions) ==
    [maxSeconds |-> maxSeconds, canSkipQuestions |-> canSkipQuestions,
     questionCount |-> numQuestions]

\* getPointValue that takes every question for a hard one.
getPointValueAllHard(q) == 50

\* TriviaQuestion.getPointValue
getPointValue(q) ==
    CASE q.difficulty = "easy"   -> 10
      [] q.difficulty = "medium" -> 25
      [] q.difficulty = "hard"   -> 50
      [] OTHER                   -> 0

\* isGameOver without the test for an unlimited game.
isGameOverNoUnlimited(r) == r.questionsAnswered = r.config.questionCount

\* isGameOver that ends the game one question late.
isGameOverLate(r) ==
    r.questionsAnswered = r.config.questionCount + 1 /\ r.config.questionCount # 0

\* TriviaRoom.isGameOver
isGameOver(r) ==
    r.questionsAnswered = r.config.questionCount /\ r.config.questionCount # 0

\* UpdatePoints without the floor at 0.
UpdatePointsNoFloor(points, pointsChange) == points + pointsChange

\* stats.points += stats.pointsChange; if (stats.points < 0) stats.points = 0;
UpdatePoints(points, pointsChange) ==
    IF points + pointsChange < 0 THEN 0 ELSE points + pointsChange

\* The grading of one member that takes no selection for a wrong answer
\* whatever the configuration says.
GradeStatsNoSkip(stats, q, canSkipQuestions) ==
    LET correct == stats.selectedAnswerIndex = q.correctAnswerIndex
        change  == IF correct THEN getPointValue(q) ELSE 0 - getPointValue(q)
    IN  [stats EXCEPT !.pointsChange = change,
                      !.questionsRight = IF correct THEN @ + 1 ELSE @,
                      !.questionsWrong = IF correct THEN @ ELSE @ + 1,
                      !.points = UpdatePoints(@, change)]

\* The body of the forEach of sendAnswerResultsAndResetSelections, for one
\* member's stats.
GradeStats(stats, q, canSkipQuestions) ==
    IF stats.selectedAnswerIndex = -1 /\ canSkipQuestions
    THEN [stats EXCEPT !.pointsChange = 0,
                       !.questionsWrong = @ + 1,
                       !.points = UpdatePoints(@, 0)]
    ELSE LET correct == stats.selectedAnswerIndex = q.correctAnswerIndex
             change  == IF correct THEN getPointValue(q) ELSE 0 - getPointValue(q)
         IN  [stats EXCEPT !.pointsChange = change,
                           !.questionsRight = IF correct THEN @ + 1 ELSE @,
                           !.questionsWrong = IF correct THEN @ ELSE @ + 1,
                           !.points = UpdatePoints(@, change)]

\* TriviaRoom.sendAnswerResultsAndResetSelections, on the room object.
sendAnswerResultsAndResetSelections(r) ==
    IF r.currentQuestion = NoQuestion THEN r
    ELSE LET members == { r.users[i] : i \in 1..Len(r.users) }
             graded  == [n \in DOMAIN r.userStats |->
                            IF n \in members
                            THEN GradeStats(r.userStats[n], r.currentQuestion,
                                            r.config.canSkipQuestions)
                            ELSE r.userStats[n]]
         IN  [r EXCEPT !.userStats =
                 [n \in DOMAIN graded |-> [graded[n] EXCEPT !.selectedAnswerIndex = -1]]]

\* clearTimeout(room.timerId): the timeout the handle names is the one
\* scheduled last, so it is pending whenever any countdown timeout is.
clearTimeout(s, id) ==
    IF s.room[id].timerId # -1 /\ s.pending[id].ticks > 0
    THEN [s EXCEPT !.pending[id].ticks = @ - 1]
    ELSE s

\* What a room has published and broadcast so far, kept as a summary:
\* whether NEW_ROOM was published, how often DELETE_ROOM was, whether an
\* UPDATE_ROOM followed a DELETE_ROOM, whether 'game over' was sent, how
\* many grading passes ran, how often timer() ran for the room since its
\* latest question was set and, in runs that record them (scope.events), the
\* events published for the room, in order, by the latest handler that can
\* publish any (a connection, an anonymous 'join room' and an 'answer'
\* publish nothing and leave the record alone).
NoHistory ==
    [created |-> FALSE, deleted |-> 0, updatedAfterDelete |-> FALSE,
     gameOverSent |-> FALSE, gradings |-> 0, firings |-> 0,
     published |-> <<>>]

LogEvent(h, kind) ==
    LET h1 == IF scope.events THEN [h EXCEPT !.published = Append(@, kind)] ELSE h
    IN  CASE kind = "newRoom"    -> [h1 EXCEPT !.created = TRUE]
          [] kind = "deleteRoom" -> [h1 EXCEPT !.deleted = @ + 1]
          [] kind = "updateRoom" -> [h1 EXCEPT !.updatedAfterDelete = @ \/ h.deleted > 0]

\* triviaEventEmitter.emit(kind, room), with its subscribers: question-source's
\* init() deletes the room's session token on DELETE_ROOM; the lobby only
\* broadcasts.
Emit(s, kind, id) ==
    LET s1 == [s EXCEPT !.hist[id] = LogEvent(@, kind)]
    IN  IF kind = "deleteRoom"
        THEN [s1 EXCEPT !.sessionTokens = Delete(@, id)]
        ELSE s1

\* deleteRoom(room)
deleteRoom(s, id) ==
    IF id \in s.rooms
    THEN LET s1 == clearTimeout(s, id)
             s2 == [s1 EXCEPT !.room[id].timerId = -1,
                              !.rooms = @ \ {id}]
         IN  Emit(s2, "deleteRoom", id)
    ELSE s

(* ---------------------- roombase.js, user.js, lobby.js ----------------- *)

\* The users array of a room object or of the lobby.
UsersOf(s, rid) == IF rid = LobbyId THEN s.lobbyUsers ELSE s.room[rid].users

SetUsersOf(s, rid, seq) ==
    IF rid = LobbyId THEN [s EXCEPT !.lobbyUsers = seq]
    ELSE [s EXCEPT !.room[rid].users = seq]

\* RoomBase.isUserInRoom
isUserInRoom(s, rid, u) == FindIndex(UsersOf(s, rid), u) # -1

\* User.setRoom (socket.join and socket.leave only route broadcasts)
setRoom(s, u, rid) ==
    IF s.userRoom[u] = rid THEN s ELSE [s EXCEPT !.userRoom[u] = rid]

\* User.leaveRoom
leaveRoom(s, u) == setRoom(s, u, NoRoom)

\* RoomBase.removeUser
BaseRemoveUser(s, rid, u) ==
    LET userIndex == FindIndex(UsersOf(s, rid), u)
        s1 == SetUsersOf(s, rid, Splice1(UsersOf(s, rid), userIndex))
    IN  leaveRoom(s1, u)

\* removeUser that leaves the departing user's statistics in the room.
TriviaRemoveUserKeepingStats(s, id, u) ==
    LET s1 == BaseRemoveUser(s, id, u)
        s2 == [s1 EXCEPT !.listeners[u] = {}]
    IN  IF Len(s2.room[id].users) = 0 /\ s2.room[id].deleteOnLastUser
        THEN deleteRoom(s2, id)
        ELSE Emit(s2, "updateRoom", id)

\* TriviaRoom.removeUser
TriviaRemoveUser(s, id, u) ==
    LET s1 == BaseRemoveUser(s, id, u)
        s2 == [s1 EXCEPT !.room[id].userStats = Delete(@, u),
                         !.listeners[u] = {}]
    IN  IF Len(s2.room[id].users) = 0 /\ s2.room[id].deleteOnLastUser
        THEN deleteRoom(s2, id)
        ELSE Emit(s2, "updateRoom", id)

\* Lobby.removeUser
LobbyRemoveUser(s, u) == BaseRemoveUser(s, LobbyId, u)

\* user.room.removeUser(user), dispatched on the room's class
RemoveUser(s, rid, u) ==
    IF rid = LobbyId THEN LobbyRemoveUser(s, u) ELSE TriviaRemoveUser(s, rid, u)

\* RoomBase.addUser that does not take the user out of the previous room.
BaseAddUserNoLeave(s, rid, u) ==
    IF isUserInRoom(s, rid, u) THEN s
    ELSE [SetUsersOf(s, rid, Append(UsersOf(s, rid), u)) EXCEPT !.userRoom[u] = rid]

\* RoomBase.addUser: leave the previous room, join this one.
BaseAddUser(s, rid, u) ==
    IF isUserInRoom(s, rid, u) THEN s
    ELSE LET s1 == IF s.userRoom[u] # NoRoom THEN RemoveUser(s, s.userRoom[u], u) ELSE s
             s2 == SetUsersOf(s1, rid, Append(UsersOf(s1, rid), u))
         IN  setRoom(s2, u, rid)

\* Lobby.addUser
LobbyAddUser(s, u) == BaseAddUser(s, LobbyId, u)

\* TriviaRoom.addUser: the statements after super.addUser(user) run whether
\* or not super.addUser returned early.  Registering the 'answer' closure of
\* this room a second time adds nothing: the closure run twice on one message
\* does what it does once.
TriviaAddUser(s, id, u) ==
    LET s1 == BaseAddUser(s, id, u)
        s2 == [s1 EXCEPT !.room[id].userStats = Put(@, u, UserStatistics),
                         !.listeners[u] = @ \cup {id}]
        s3 == IF isGameOver(s2.room[id])
              THEN [s2 EXCEPT !.hist[id].gameOverSent = TRUE]
              ELSE s2
    IN  Emit(s3, "updateRoom", id)

(* -------------------------- question-source.js ------------------------- *)

\* No request of the supplier is in flight for the room.  While a
\* getTriviaQuestionAsync call is in progress the counters tell how many
\* token and question requests it has sent so far and whether its
\* cached-token request met response code 4.
IdleFetch ==
    [stage |-> "idle", cached |-> FALSE, cmd |-> "none", tok |-> "none",
     tokenCalls |-> 0, questionCalls |-> 0, code4 |-> FALSE]

\* A swap that loses answers[i]: answers[i] = answers[newIndex] only.
SwapOverwriting(a, i, j) == [a EXCEPT ![i] = a[j]]

\* tmp = answers[i]; answers[i] = answers[newIndex]; answers[newIndex] = tmp
Swap(a, i, j) == [a EXCEPT ![i] = a[j], ![j] = a[i]]

\* The shuffle loop of makeQuestionRequest from position i on (1-based);
\* choices[i] is the value of Math.floor(Math.random() * answers.length)
\* drawn in iteration i.
RECURSIVE ShuffleFrom(_, _, _)
ShuffleFrom(answers, choices, i) ==
    IF i > Len(answers) THEN answers
    ELSE ShuffleFrom(Swap(answers, i, choices[i] + 1), choices, i + 1)

\* makeQuestionRequest's normalisation of a question record.
MakeTriviaQuestion(response, choices) ==
    LET answers == ShuffleFrom(Append(response.incorrect_answers, response.correct_answer),
                               choices, 1)
    IN  [answers |-> answers,
         correctAnswerIndex |-> FindIndex(answers, response.correct_answer),
         difficulty |-> response.difficulty]

\* getSessionTokenForRoom: which command the token URL carries.
TokenCommand(s, id) ==
    IF id \in DOMAIN s.sessionTokens THEN "reset" ELSE "request"

\* getTokenThenRequestQuestion up to the token request being sent.
getTokenThenRequestQuestion(s, id) ==
    [s EXCEPT !.pending[id].fetch =
        [@ EXCEPT !.stage = "token", !.cmd = TokenCommand(s, id),
                  !.tokenCalls = @ + 1]]

\* A question request that is again treated as one made with a cached token,
\* so that response code 4 resets the token once more.
SendQuestionRequestRetrying(s, id, tok, cached) ==
    [s EXCEPT !.pending[id].fetch =
        [@ EXCEPT !.stage = "question", !.cached = TRUE, !.tok = tok,
                  !.questionCalls = @ + 1]]

\* The question request being sent with token `tok`.
SendQuestionRequest(s, id, tok, cached) ==
    [s EXCEPT !.pending[id].fetch =
        [@ EXCEPT !.stage = "question", !.cached = cached, !.tok = tok,
                  !.questionCalls = @ + 1]]

\* getTriviaQuestionAsync up to its first request being sent.
getTriviaQuestionAsync(s, id) ==
    LET s1 == [s EXCEPT !.pending[id].fetch = IdleFetch]
    IN  IF id \in DOMAIN s1.sessionTokens
        THEN SendQuestionRequest(s1, id, s1.sessionTokens[id], TRUE)
        ELSE getTokenThenRequestQuestion(s1, id)

(* ----------------------- trivia-room.js: the cycle --------------------- *)

\* TriviaRoom.requestNewQuestion
requestNewQuestion(s, id) == getTriviaQuestionAsync(s, id)

\* setTimeout(this.requestNewQuestion.bind(this), 5000) and
\* setTimeout(() => room.requestNewQuestion(), 5000)
ScheduleRequest(s, id) == [s EXCEPT !.pending[id].retries = @ + 1]

\* room.timerId = setTimeout(timer, 1000, room)
ScheduleTimer(s, id) ==
    [s EXCEPT !.pending[id].ticks = @ + 1, !.room[id].timerId = 1]

\* setNewQuestion that leaves secondsLeft as the last countdown left it.
setNewQuestionNoReset(r, q) == [r EXCEPT !.currentQuestion = q]

\* TriviaRoom.setNewQuestion: secondsLeft is set to maxSeconds and then
\* decremented in the broadcast of 'seconds left'.
setNewQuestion(r, q) ==
    [r EXCEPT !.currentQuestion = q, !.secondsLeft = r.config.maxSeconds - 1]

\* A success continuation after which the failure continuation runs as
\* well, as a promise chain would make it if the success continuation threw.
onCompleteThenError(s, id, q) ==
    LET s1 == [s EXCEPT !.pending[id].fetch = IdleFetch,
                        !.room[id].acceptAnswers = TRUE,
                        !.hist[id].firings = 0]
        s2 == [s1 EXCEPT !.room[id] = setNewQuestion(@, q)]
    IN  ScheduleRequest(ScheduleTimer(s2, id), id)

\* requestNewQuestion's success continuation
onComplete(s, id, q) ==
    LET s1 == [s EXCEPT !.pending[id].fetch = IdleFetch,
                        !.room[id].acceptAnswers = TRUE,
                        !.hist[id].firings = 0]
        s2 == [s1 EXCEPT !.room[id] = setNewQuestion(@, q)]
    IN  ScheduleTimer(s2, id)

\* A failure continuation that schedules no retry.
onErrorNoRetry(s, id) == [s EXCEPT !.pending[id].fetch = IdleFetch]

\* requestNewQuestion's failure continuation
onError(s, id) ==
    ScheduleRequest([s EXCEPT !.pending[id].fetch = IdleFetch], id)

\* The 'answer' listener without the acceptAnswers test.
AnswerHandlerUnlocked(r, u, answerNumber) ==
    IF /\ u \in DOMAIN r.userStats
       /\ r.userStats[u].selectedAnswerIndex = -1
    THEN [r EXCEPT !.userStats[u].selectedAnswerIndex = answerNumber]
    ELSE r

\* The 'answer' listener without the test for an earlier selection.
AnswerHandlerOverwrite(r, u, answerNumber) ==
    IF /\ u \in DOMAIN r.userStats
       /\ r.acceptAnswers
    THEN [r EXCEPT !.userStats[u].selectedAnswerIndex = answerNumber]
    ELSE r

\* The 'answer' listener TriviaRoom.addUser registers, on the room object.
AnswerHandler(r, u, answerNumber) ==
    IF /\ u \in DOMAIN r.userStats
       /\ r.userStats[u].selectedAnswerIndex = -1
       /\ r.acceptAnswers
    THEN [r EXCEPT !.userStats[u].selectedAnswerIndex = answerNumber]
    ELSE r

\* timer(room) that grades as soon as one second is left.
timerGradingEarly(s, id) ==
    IF s.room[id].secondsLeft <= 1
    THEN LET s1 == [s EXCEPT !.room[id].questionsAnswered = @ + 1,
                             !.room[id].acceptAnswers = FALSE,
                             !.room[id].secondsLeft = 0]
             s2 == [s1 EXCEPT !.room[id] = sendAnswerResultsAndResetSelections(@),
                              !.hist[id].gradings = @ + 1,
                              !.hist[id].firings = @ + 1]
         IN  IF ~isGameOver(s2.room[id])
             THEN ScheduleRequest(s2, id)
             ELSE LET s3 == [s2 EXCEPT !.hist[id].gameOverSent = TRUE]
                  IN  IF s3.room[id].deleteOnLastUser THEN deleteRoom(s3, id) ELSE s3
    ELSE ScheduleTimer([s EXCEPT !.room[id].secondsLeft = @ - 1,
                                 !.hist[id].firings = @ + 1], id)

\* timer(room) that asks for the next question after the last one too.
timerRequestingAfterGameOver(s, id) ==
    IF s.room[id].secondsLeft = 0
    THEN LET s1 == [s EXCEPT !.room[id].questionsAnswered = @ + 1,
                             !.room[id].acceptAnswers = FALSE]
             s2 == [s1 EXCEPT !.room[id] = sendAnswerResultsAndResetSelections(@),
                              !.hist[id].gradings = @ + 1,
                              !.hist[id].firings = @ + 1]
         IN  IF ~isGameOver(s2.room[id])
             THEN ScheduleRequest(s2, id)
             ELSE LET s3 == ScheduleRequest([s2 EXCEPT !.hist[id].gameOverSent = TRUE], id)
                  IN  IF s3.room[id].deleteOnLastUser THEN deleteRoom(s3, id) ELSE s3
    ELSE ScheduleTimer([s EXCEPT !.room[id].secondsLeft = @ - 1,
                                 !.hist[id].firings = @ + 1], id)

\* timer(room) that counts a question as answered on every tick.
timerCountingTicks(s, id) ==
    IF s.room[id].secondsLeft = 0
    THEN LET s1 == [s EXCEPT !.room[id].questionsAnswered = @ + 1,
                             !.room[id].acceptAnswers = FALSE]
             s2 == [s1 EXCEPT !.room[id] = sendAnswerResultsAndResetSelections(@),
                              !.hist[id].gradings = @ + 1,
                              !.hist[id].firings = @ + 1]
         IN  IF ~isGameOver(s2.room[id])
             THEN ScheduleRequest(s2, id)
             ELSE LET s3 == [s2 EXCEPT !.hist[id].gameOverSent = TRUE]
                  IN  IF s3.room[id].deleteOnLastUser THEN deleteRoom(s3, id) ELSE s3
    ELSE ScheduleTimer([s EXCEPT !.room[id].secondsLeft = @ - 1,
                                 !.room[id].questionsAnswered = @ + 1,
                                 !.hist[id].firings = @ + 1], id)

\* timer(room)
timer(s, id) ==
    IF s.room[id].secondsLeft = 0
    THEN LET s1 == [s EXCEPT !.room[id].questionsAnswered = @ + 1,
                             !.room[id].acceptAnswers = FALSE]
             s2 == [s1 EXCEPT !.room[id] = sendAnswerResultsAndResetSelections(@),
                              !.hist[id].gradings = @ + 1,
                              !.hist[id].firings = @ + 1]
         IN  IF ~isGameOver(s2.room[id])
             THEN ScheduleRequest(s2, id)
             ELSE LET s3 == [s2 EXCEPT !.hist[id].gameOverSent = TRUE]
                  IN  IF s3.room[id].deleteOnLastUser THEN deleteRoom(s3, id) ELSE s3
    ELSE ScheduleTimer([s EXCEPT !.room[id].secondsLeft = @ - 1,
                                 !.hist[id].firings = @ + 1], id)

\* A comparison of two quotients a.questionsRight / aQCount as JavaScript
\* numbers: 0 / 0 is NaN, and every comparison with NaN is false.  Both
\* divisors are non-negative, so the quotients compare as their cross
\* products do.
RatioGreater(a, b) ==
    LET aQCount == a.questionsRight + a.questionsWrong
        bQCount == b.questionsRight + b.questionsWrong
    IN  /\ aQCount # 0
        /\ bQCount # 0
        /\ a.questionsRight * bQCount > b.questionsRight * aQCount

\* compareStats without the comparison of the ratios.
compareStatsPointsOnly(a, b) ==
    IF a.points > b.points THEN -1
    ELSE IF a.points < b.points THEN 1
    ELSE 0

\* compareStats(a, b)
compareStats(a, b) ==
    IF a.points > b.points THEN -1
    ELSE IF a.points < b.points THEN 1
    ELSE IF RatioGreater(a, b) THEN -1
    ELSE IF RatioGreater(b, a) THEN 1
    ELSE 0

\* One insertion of stats.sort(compareStats): x goes behind the last element
\* that compareStats does not put after it.
RECURSIVE InsertStats(_, _)
InsertStats(sorted, x) ==
    IF sorted = <<>> THEN <<x>>
    ELSE IF compareStats(sorted[Len(sorted)], x) > 0
         THEN Append(InsertStats(SubSeq(sorted, 1, Len(sorted) - 1), x),
                     sorted[Len(sorted)])
         ELSE Append(sorted, x)

\* stats.sort(compareStats) in sendGameOverToAll and sendGameOverToOne:
\* Array.prototype.sort is stable, elements that compare equal keep the
\* order of the users array.
RECURSIVE SortStats(_)
SortStats(stats) ==
    IF stats = <<>> THEN <<>>
    ELSE InsertStats(SortStats(SubSeq(stats, 1, Len(stats) - 1)), stats[Len(stats)])

\* new TriviaRoom(io, name, deleteOnLastUser, config), before its constructor
\* calls requestNewQuestion.
TriviaRoom(deleteOnLastUser, config) ==
    [users |-> <<>>, userStats |-> EmptyMap, timerId |-> -1,
     secondsLeft |-> config.maxSeconds, currentQuestion |-> NoQuestion,
     deleteOnLastUser |-> deleteOnLastUser, config |-> config,
     acceptAnswers |-> TRUE, questionsAnswered |-> 0]

\* generateId()
generateId(s) == IdPool[Cardinality(DOMAIN s.room) + 1]

\* makeNewRoom(io, name, deleteOnLastUser, config)
makeNewRoom(s, deleteOnLastUser, config) ==
    LET id == generateId(s)
        s1 == [s EXCEPT !.room = Put(@, id, TriviaRoom(deleteOnLastUser, config)),
                        !.pending = Put(@, id, [fetch |-> IdleFetch, retries |-> 0, ticks |-> 0]),
                        !.hist = Put(@, id, NoHistory)]
        s2 == requestNewQuestion(s1, id)
        s3 == [s2 EXCEPT !.rooms = @ \cup {id}]
    IN  Emit(s3, "newRoom", id)

(* ------------------------------ the system ----------------------------- *)

\* The configurations 'create room' messages ask for (category and
\* difficulty left out): a one-question game that allows skips and a
\* two-question game that does not.
Configs ==
    { RoomConfiguration(2, TRUE, 1), RoomConfiguration(2, FALSE, 2) }

\* The ids a client may name in 'join room'.
RoomIds == { IdPool[i] : i \in 1..MaxRooms }

\* Module state before the startup script runs.
Blank ==
    [rooms |-> {}, room |-> EmptyMap, lobbyUsers |-> <<>>,
     userRoom |-> [u \in Users |-> NoRoom], listeners |-> [u \in Users |-> {}],
     sessionTokens |-> EmptyMap, pending |-> EmptyMap, hist |-> EmptyMap]

\* The startup script: the lobby, then 'The Any Room' with the default
\* configuration, kept when empty, then canSkipQuestions set on it.
Startup ==
    LET s1 == makeNewRoom(Blank, FALSE, RoomConfiguration(StartupMaxSeconds, FALSE, 0))
    IN  [s1 EXCEPT !.room[IdPool[1]].config.canSkipQuestions = TRUE]

\* The state after startup, before the first connection.
Started ==
    /\ rooms = Startup.rooms
    /\ room = Startup.room
    /\ lobbyUsers = Startup.lobbyUsers
    /\ userRoom = Startup.userRoom
    /\ listeners = Startup.listeners
    /\ sessionTokens = Startup.sessionTokens
    /\ pending = Startup.pending
    /\ hist = Startup.hist
    /\ conn = [u \in Users |-> "none"]
    /\ pendingJoinRoomRequests = [u \in Users |-> "none"]
    /\ served = 0

\* The game runs: both users connect; the token endpoint hands out one token.
GameScope == [users |-> Users, tokens |-> {"tokA"}, events |-> FALSE]

\* The supplier runs: one user connects; the token endpoint hands out either
\* token, so a reset can replace the cached token by another one.
SupplierScope == [users |-> {"alice"}, tokens |-> TokenValues, events |-> FALSE]

\* The game runs as in GameScope and the events each handler publishes are
\* recorded.
EventScope == [users |-> Users, tokens |-> {"tokA"}, events |-> TRUE]

\* No function is applied on its own in a run of the server.
NoCall == [fn |-> "none", args |-> <<>>, returned |-> <<>>]

Init == scope = GameScope /\ call = NoCall /\ Started

SupplierInit == scope = SupplierScope /\ call = NoCall /\ Started

EventInit == scope = EventScope /\ call = NoCall /\ Started

\* io.on('connection'): new User(socket, '', lobby)
Connect(u) ==
    /\ u \in scope.users
    /\ conn[u] = "none"
    /\ conn' = [conn EXCEPT ![u] = "anon"]
    /\ UNCHANGED <<rooms, room, lobbyUsers, userRoom, pendingJoinRoomRequests,
                   listeners, sessionTokens, pending, hist, served, scope, call>>

\* waitForNickname's 'join room' handler
RememberJoin(u, id) ==
    /\ conn[u] = "anon"
    /\ pendingJoinRoomRequests' = [pendingJoinRoomRequests EXCEPT ![u] = id]
    /\ UNCHANGED <<rooms, room, lobbyUsers, userRoom, conn, listeners,
                   sessionTokens, pending, hist, served, scope, call>>

\* waitForNickname's 'set nickname' handler, with a valid, free nickname
SetNickname(u) ==
    /\ conn[u] = "anon"
    /\ conn' = [conn EXCEPT ![u] = "named"]
    /\ pendingJoinRoomRequests' = [pendingJoinRoomRequests EXCEPT ![u] = "none"]
    /\ IF pendingJoinRoomRequests[u] # "none" /\ pendingJoinRoomRequests[u] \in rooms
       THEN Install(TriviaAddUser(Cur, pendingJoinRoomRequests[u], u))
       ELSE Install(LobbyAddUser(Cur, u))
    /\ UNCHANGED <<served, scope, call>>

\* initializeUser's 'join room' handler
JoinRoom(u, id) ==
    /\ conn[u] = "named"
    /\ id \in rooms
    /\ Install(TriviaAddUser(Cur, id, u))
    /\ UNCHANGED <<conn, pendingJoinRoomRequests, served, scope, call>>

\* initializeUser's 'leave room' handler
LeaveRoom(u) ==
    /\ conn[u] = "named"
    /\ userRoom[u] # NoRoom
    /\ Install(LobbyAddUser(Cur, u))
    /\ UNCHANGED <<conn, pendingJoinRoomRequests, served, scope, call>>

\* initializeUser's 'create room' handler
CreateRoom(u, config) ==
    /\ conn[u] = "named"
    /\ Cardinality(DOMAIN room) < MaxRooms
    /\ LET s1 == makeNewRoom(Cur, TRUE, config)
       IN  Install(TriviaAddUser(s1, generateId(Cur), u))
    /\ UNCHANGED <<conn, pendingJoinRoomRequests, served, scope, call>>

\* An 'answer' message: every 'answer' listener on the socket runs.
Answer(u, answerNumber) ==
    /\ conn[u] # "none"
    /\ listeners[u] # {}
    /\ room' = [id \in DOMAIN room |->
                   IF id \in listeners[u]
                   THEN AnswerHandler(room[id], u, answerNumber)
                   ELSE room[id]]
    /\ UNCHANGED <<rooms, lobbyUsers, userRoom, conn, pendingJoinRoomRequests,
                   listeners, sessionTokens, pending, hist, served, scope, call>>

\* waitForNickname's 'disconnect' handler
Disconnect(u) ==
    /\ conn[u] # "none"
    /\ conn' = [conn EXCEPT ![u] = "none"]
    /\ pendingJoinRoomRequests' = [pendingJoinRoomRequests EXCEPT ![u] = "none"]
    /\ IF userRoom[u] # NoRoom
       THEN Install(RemoveUser(Cur, userRoom[u], u))
       ELSE Install(Cur)
    /\ UNCHANGED <<served, scope, call>>

\* The token endpoint answers with token t (getSessionTokenForRoom's and
\* getTokenThenRequestQuestion's continuations).
TokenResponse(id, t) ==
    /\ pending[id].fetch.stage = "token"
    /\ t \in scope.tokens
    /\ LET s1 == [Cur EXCEPT !.sessionTokens = Put(@, id, t)]
       IN  Install(SendQuestionRequest(s1, id, t, FALSE))
    /\ UNCHANGED <<conn, pendingJoinRoomRequests, served, scope, call>>

\* The token request fails.
TokenFailure(id) ==
    /\ pending[id].fetch.stage = "token"
    /\ Install(onError(Cur, id))
    /\ UNCHANGED <<conn, pendingJoinRoomRequests, served, scope, call>>

\* The question endpoint answers with a question record.
QuestionResponse(id, response, choices) ==
    /\ pending[id].fetch.stage = "question"
    /\ served < MaxQuestions
    /\ served' = served + 1
    /\ Install(onComplete(Cur, id, MakeTriviaQuestion(response, choices)))
    /\ UNCHANGED <<conn, pendingJoinRoomRequests, scope, call>>

\* The question endpoint answers with response code 4.
QuestionTokenExhausted(id) ==
    /\ pending[id].fetch.stage = "question"
    /\ IF pending[id].fetch.cached
       THEN Install(getTokenThenRequestQuestion(
                [Cur EXCEPT !.pending[id].fetch.code4 = TRUE], id))
       ELSE Install(onError(Cur, id))
    /\ UNCHANGED <<conn, pendingJoinRoomRequests, served, scope, call>>

\* The question request fails in any other way.
QuestionFailure(id) ==
    /\ pending[id].fetch.stage = "question"
    /\ Install(onError(Cur, id))
    /\ UNCHANGED <<conn, pendingJoinRoomRequests, served, scope, call>>

\* A pending setTimeout(requestNewQuestion, 5000) fires.
RequestFires(id) ==
    /\ pending[id].retries > 0
    /\ Install(requestNewQuestion([Cur EXCEPT !.pending[id].retries = @ - 1], id))
    /\ UNCHANGED <<conn, pendingJoinRoomRequests, served, scope, call>>

\* A pending setTimeout(timer, 1000, room) fires.
TimerFires(id) ==
    /\ pending[id].ticks > 0
    /\ Install(timer([Cur EXCEPT !.pending[id].ticks = @ - 1], id))
    /\ UNCHANGED <<conn, pendingJoinRoomRequests, served, scope, call>>

Next ==
    \/ \E u \in Users : Connect(u)
    \/ \E u \in Users, id \in RoomIds : RememberJoin(u, id)
    \/ \E u \in Users : SetNickname(u)
    \/ \E u \in Users, id \in RoomIds : JoinRoom(u, id)
    \/ \E u \in Users : LeaveRoom(u)
    \/ \E u \in Users, config \in Configs : CreateRoom(u, config)
    \/ \E u \in Users, n \in AnswerInputs : Answer(u, n)
    \/ \E u \in Users : Disconnect(u)
    \/ \E id \in DOMAIN room, t \in TokenValues : TokenResponse(id, t)
    \/ \E id \in DOMAIN room : TokenFailure(id)
    \/ \E id \in DOMAIN room, response \in RawResponses,
          choices \in ShuffleChoices : QuestionResponse(id, response, choices)
    \/ \E id \in DOMAIN room : QuestionTokenExhausted(id)
    \/ \E id \in DOMAIN room : QuestionFailure(id)
    \/ \E id \in DOMAIN room : RequestFires(id)
    \/ \E id \in DOMAIN room : TimerFires(id)

Spec == Init /\ [][Next]_vars

\* Node fires every pending timeout, and the supplier, asked again and again,
\* eventually answers with a token and with a question.
Fairness ==
    \A id \in RoomIds :
        /\ WF_vars(id \in DOMAIN room /\ RequestFires(id))
        /\ WF_vars(id \in DOMAIN room /\ TimerFires(id))
        /\ SF_vars(id \in DOMAIN room /\ \E t \in TokenValues : TokenResponse(id, t))
        /\ SF_vars(id \in DOMAIN room /\
                   \E response \in RawResponses, choices \in ShuffleChoices :
                       QuestionResponse(id, response, choices))

SupplierSpec == SupplierInit /\ [][Next]_vars

FairSupplierSpec == SupplierSpec /\ Fairness

EventSpec == EventInit /\ [][Next]_vars

(* ----------------------- functions on their own ------------------------ *)

\* The nicknames getUserStats() puts on the entries, in the order of the
\* users array.
Members == <<"alice", "bob", "carol">>

\* The point totals of the entries.
PointTotals == {0, 50, 100}

\* What compareStats reads of an entry of getUserStats().
StatsEntries(nickname) ==
    [nickname : {nickname}, points : PointTotals,
     questionsRight : 0..MaxAnswered, questionsWrong : 0..MaxAnswered]

\* An entry of a member who was in the room during a grading pass: the pass
\* raised questionsRight or questionsWrong.
Graded(e) == e.questionsRight + e.questionsWrong >= 1

\* The arrays sendGameOverToAll sorts: timer() calls it right after the
\* grading pass, which counts a right or a wrong answer for every member.
FinalStats ==
    { <<a, b>> : a \in { e \in StatsEntries(Members[1]) : Graded(e) },
                 b \in { e \in StatsEntries(Members[2]) : Graded(e) } }
    \cup
    { <<a, b, c>> : a \in { e \in StatsEntries(Members[1]) : Graded(e) },
                    b \in { e \in StatsEntries(Members[2]) : Graded(e) },
                    c \in { e \in StatsEntries(Members[3]) : Graded(e) } }

\* The statistics a grading pass finds: points below and above the point
\* values, a selection that is none, an index of the question, or any other
\* number the client sent.
GradedInputs ==
    [points : {0, 20, 100}, pointsChange : {0},
     questionsRight : 0..MaxAnswered, questionsWrong : 0..MaxAnswered,
     selectedAnswerIndex : {-1, 0, 1, 7}]

\* The questions a grading pass grades against: response.difficulty is any
\* string of the supplier's.
GradedQuestions ==
    [answers : {<<"False", "True">>}, correctAnswerIndex : {0, 1},
     difficulty : {"easy", "medium", "hard", "expert"}]

\* The answer texts of the question records.
AnswerTexts == {"True", "False", "Maybe"}

\* The question records normalised on their own: one to MaxIncorrect
\* incorrect answers, texts that may repeat and may repeat the correct one.
NormalizedResponses ==
    { [correct_answer |-> c, incorrect_answers |-> i, difficulty |-> "hard"] :
        c \in AnswerTexts,
        i \in UNION { [1..n -> AnswerTexts] : n \in 1..MaxIncorrect } }

\* The values Math.floor(Math.random() * answers.length) can take in the
\* shuffle loop over n answers: any index, in every iteration.
ChoicesFor(n) == [1..n -> 0..(n - 1)]

\* The applications of compareStats, of the final sort, of the grading of
\* one member and of the normalisation of a question record that are checked.
Calls ==
    { [fn |-> "compareStats", args |-> <<a, b>>, returned |-> <<>>] :
        a \in StatsEntries(Members[1]), b \in StatsEntries(Members[2]) }
    \cup
    { [fn |-> "sort", args |-> stats, returned |-> <<>>] : stats \in FinalStats }
    \cup
    { [fn |-> "grade", args |-> <<stats, q, skip>>, returned |-> <<>>] :
        stats \in GradedInputs, q \in GradedQuestions, skip \in BOOLEAN }
    \cup
    UNION { { [fn |-> "normalize", args |-> <<response, choices>>, returned |-> <<>>] :
                choices \in ChoicesFor(Len(response.incorrect_answers) + 1) } :
            response \in NormalizedResponses }

FunctionInit == scope = GameScope /\ call \in Calls /\ Started

Program ==
    <<rooms, room, lobbyUsers, userRoom, conn, pendingJoinRoomRequests,
      listeners, sessionTokens, pending, hist, served, scope>>

\* compareStats(a, b) returns.
CallCompareStats ==
    /\ call.fn = "compareStats"
    /\ call.returned = <<>>
    /\ call' = [call EXCEPT !.returned = <<compareStats(call.args[1], call.args[2])>>]
    /\ UNCHANGED Program

\* stats.sort(compareStats) returns.
CallSort ==
    /\ call.fn = "sort"
    /\ call.returned = <<>>
    /\ call' = [call EXCEPT !.returned = <<SortStats(call.args)>>]
    /\ UNCHANGED Program

\* The forEach body of sendAnswerResultsAndResetSelections has run for one
\* member.
CallGrade ==
    /\ call.fn = "grade"
    /\ call.returned = <<>>
    /\ call' = [call EXCEPT !.returned =
                   <<GradeStats(call.args[1], call.args[2], call.args[3])>>]
    /\ UNCHANGED Program

\* makeQuestionRequest's continuation has normalised a question record.
CallNormalize ==
    /\ call.fn = "normalize"
    /\ call.returned = <<>>
    /\ call' = [call EXCEPT !.returned =
                   <<MakeTriviaQuestion(call.args[1], call.args[2])>>]
    /\ UNCHANGED Program

FunctionNext ==
    \/ CallCompareStats
    \/ CallSort
    \/ CallGrade
    \/ CallNormalize

FunctionSpec == FunctionInit /\ [][FunctionNext]_vars

(* ------------------------------ vocabulary ----------------------------- *)

Stats(id, u) == room[id].userStats[u]

\* The countdown of a question is running in the room.
QuestionActive(id) ==
    room[id].currentQuestion # NoQuestion /\ pending[id].ticks > 0

\* The room waits for a question: a request is in flight or a call of
\* requestNewQuestion is scheduled.
AwaitingQuestion(id) ==
    pending[id].fetch.stage # "idle" \/ pending[id].retries > 0

AnswerStep == \E u \in Users, n \in AnswerInputs : Answer(u, n)

(* -------------------------------- claims ------------------------------- *)

\* C1: while a room's acceptAnswers is false (from grading until the next
\* question becomes active) no 'answer' message changes any member's
\* selectedAnswerIndex: an answer step leaves the statistics of every locked
\* room as they were.
C1_LateSubmissionLock ==
    [][AnswerStep =>
        \A id \in DOMAIN room :
            ~room[id].acceptAnswers => room'[id].userStats = room[id].userStats]_vars

\* C1 witness: a locked room with a member whose 'answer' listener is
\* registered, so that a late submission can be sent and is ignored.
C1_Witness ==
    \E id \in DOMAIN room, u \in Users :
        /\ ~room[id].acceptAnswers
        /\ u \in DOMAIN room[id].userStats
        /\ id \in listeners[u]
        /\ hist[id].gradings >= 1

\* C2: an 'answer' message is recorded only for a member whose
\* selectedAnswerIndex is -1 in a room that accepts answers, and a message
\* from a member who already has a selection changes nothing at all.
C2_SingleSubmission ==
    [][\A u \in Users, n \in AnswerInputs :
        Answer(u, n) =>
            /\ \A id \in DOMAIN room :
                  room'[id] # room[id] =>
                      /\ u \in DOMAIN room[id].userStats
                      /\ Stats(id, u).selectedAnswerIndex = -1
                      /\ room[id].acceptAnswers
                      /\ room'[id] = [room[id] EXCEPT
                                        !.userStats[u].selectedAnswerIndex = n]
            /\ (\A id \in listeners[u] :
                    /\ u \in DOMAIN room[id].userStats
                    /\ Stats(id, u).selectedAnswerIndex # -1)
               => UNCHANGED vars]_vars

\* C2 witness: a member with a recorded selection while the question is
\* still open, so that a second submission can be sent.
C2_Witness ==
    \E id \in DOMAIN room, u \in Users :
        /\ QuestionActive(id)
        /\ room[id].acceptAnswers
        /\ u \in DOMAIN room[id].userStats
        /\ id \in listeners[u]
        /\ Stats(id, u).selectedAnswerIndex = 0

\* C3: an answer sent while the room has no active question is ignored, so
\* in a room whose countdown is not running every member's
\* selectedAnswerIndex is -1.
C3_NoActiveQuestionIgnored ==
    \A id \in DOMAIN room :
        ~QuestionActive(id) =>
            \A u \in DOMAIN room[id].userStats : Stats(id, u).selectedAnswerIndex = -1

\* C4: every member's points are at least 0 in every reachable state.
C4_PointsNonNegative ==
    \A id \in DOMAIN room :
        \A u \in DOMAIN room[id].userStats : Stats(id, u).points >= 0

\* C4 witness: a member graded incorrect on a question whose point value
\* exceeded the points the member had, so that the floor applied.
C4_Witness ==
    \E id \in DOMAIN room, u \in Users :
        /\ u \in DOMAIN room[id].userStats
        /\ Stats(id, u).pointsChange < 0
        /\ Stats(id, u).points = 0

\* C5: a room whose questionCount is 0 is never game over: isGameOver is
\* false, no 'game over' was sent, and the room always has its next step
\* pending (a request in flight, a scheduled request or a countdown).
C5_UnlimitedNeverGameOver ==
    \A id \in DOMAIN room :
        room[id].config.questionCount = 0 =>
            /\ ~isGameOver(room[id])
            /\ ~hist[id].gameOverSent
            /\ id \in rooms => (AwaitingQuestion(id) \/ pending[id].ticks > 0)

\* C5 witness: an unlimited room that has graded twice and has its next
\* request scheduled.
C5_Witness ==
    \E id \in DOMAIN room :
        /\ room[id].config.questionCount = 0
        /\ hist[id].gradings >= 2
        /\ pending[id].retries > 0

\* C6: a room with questionCount N >= 1 is game over exactly when it has run
\* N grading passes; it never runs more, questionsAnswered never exceeds N,
\* and once game over it has no request in flight or scheduled and no
\* countdown pending.
C6_GameOverAtNthGrading ==
    \A id \in DOMAIN room :
        room[id].config.questionCount >= 1 =>
            /\ room[id].questionsAnswered <= room[id].config.questionCount
            /\ hist[id].gradings <= room[id].config.questionCount
            /\ hist[id].gameOverSent <=> hist[id].gradings = room[id].config.questionCount
            /\ isGameOver(room[id]) <=> hist[id].gradings = room[id].config.questionCount
            /\ hist[id].gradings = room[id].config.questionCount =>
                   (~AwaitingQuestion(id) /\ pending[id].ticks = 0)

\* C6 witness: a two-question room that is game over after its second
\* grading pass.
C6_Witness ==
    \E id \in DOMAIN room :
        /\ room[id].config.questionCount = 2
        /\ hist[id].gradings = 2
        /\ hist[id].gameOverSent

\* C7 as stated: a getTriviaQuestionAsync call whose cached-token request
\* met response code 4 ends only after exactly one token request and exactly
\* two question requests (the first one and one retry).
C7_OneResetOneRetry ==
    [][\A id \in DOMAIN room :
        (pending[id].fetch.code4 /\ pending'[id].fetch.stage = "idle") =>
            /\ pending[id].fetch.stage = "question"
            /\ pending[id].fetch.tokenCalls = 1
            /\ pending[id].fetch.questionCalls = 2]_vars

\* C7 amended: response code 4 to a cached-token request makes the supplier
\* ask the token endpoint exactly once.  If a token comes back it replaces
\* the cached one and exactly one more question request is sent, carrying
\* it; whatever that request returns ends the call (the countdown starts or
\* a retry is scheduled by the room).  If the token request fails the call
\* ends with the room's retry scheduled and no further question request.
C7_ResetThenAtMostOneRetry ==
    [][\A id \in DOMAIN room :
        LET F == pending[id].fetch
            G == pending'[id].fetch
            reported == \/ pending'[id].retries = pending[id].retries + 1
                        \/ pending'[id].ticks = pending[id].ticks + 1
        IN  /\ (F.stage = "question" /\ F.cached /\ ~F.code4 /\ G.code4) =>
                   (G.stage = "token" /\ G.tokenCalls = 1 /\ G.questionCalls = 1)
            /\ (F.code4 /\ G # F) =>
                   \/ /\ F.stage = "token"
                      /\ G.stage = "question" /\ ~G.cached /\ G.code4
                      /\ G.tokenCalls = 1 /\ G.questionCalls = 2
                      /\ id \in DOMAIN sessionTokens'
                      /\ G.tok = sessionTokens'[id]
                   \/ /\ F.stage = "token"
                      /\ G = IdleFetch
                      /\ pending'[id].retries = pending[id].retries + 1
                   \/ /\ F.stage = "question" /\ ~F.cached
                      /\ F.tokenCalls = 1 /\ F.questionCalls = 2
                      /\ G = IdleFetch
                      /\ reported]_vars

\* C7 witness: after response code 4 the cached token was replaced by
\* another one and the retried question request, carrying it, is in flight.
C7_Witness ==
    \E id \in DOMAIN room :
        /\ pending[id].fetch.code4
        /\ pending[id].fetch.stage = "question"
        /\ pending[id].fetch.questionCalls = 2
        /\ pending[id].fetch.tok = "tokB"
        /\ id \in DOMAIN sessionTokens
        /\ sessionTokens[id] = "tokB"

\* C8: 'join room' for a room the user is already in changes nothing.
C8_JoinIdempotent ==
    [][\A u \in Users, id \in RoomIds :
        (JoinRoom(u, id) /\ isUserInRoom(Cur, id, u)) => UNCHANGED vars]_vars

\* How often user u occurs in the member list of room or lobby rid.
Occurrences(rid, u) ==
    LET list == IF rid = LobbyId THEN lobbyUsers ELSE room[rid].users
    IN  Cardinality({ i \in 1..Len(list) : list[i] = u })

\* C9: every user is in the member list of at most one room (a game room or
\* the lobby), once, and user.room is that room, or null when there is none.
C9_AtMostOneRoom ==
    \A u \in Users :
        LET places == { rid \in DOMAIN room \cup {LobbyId} : Occurrences(rid, u) > 0 }
        IN  /\ Cardinality(places) <= 1
            /\ \A rid \in places : Occurrences(rid, u) = 1 /\ userRoom[u] = rid
            /\ places = {} => userRoom[u] = NoRoom

\* C9 witness: two users in two different game rooms, one of which was
\* entered from the other or from the lobby.
C9_Witness ==
    \E u, v \in Users :
        /\ userRoom[u] = IdPool[1]
        /\ userRoom[v] = IdPool[2]
        /\ Occurrences(IdPool[1], u) = 1
        /\ Occurrences(IdPool[2], v) = 1

\* A request of the supplier fails and the failure reaches the room.
FetchFails(id) ==
    \/ TokenFailure(id)
    \/ QuestionFailure(id)
    \/ (QuestionTokenExhausted(id) /\ ~pending[id].fetch.cached)

\* C10: every failed fetch schedules a call of requestNewQuestion, however
\* many failed before it; and with timeouts firing and a supplier that
\* eventually answers, a room waiting for a question gets its countdown
\* started (unless the supplier has handed out all the questions of the run).
C10_RetryUntilQuestion ==
    /\ [][\A id \in DOMAIN room :
            FetchFails(id) => pending'[id].retries = pending[id].retries + 1]_vars
    /\ \A id \in RoomIds :
          (id \in rooms /\ AwaitingQuestion(id))
              ~> ((id \in DOMAIN room /\ QuestionActive(id)) \/ served = MaxQuestions)

\* C10 witness: a room that has not had a question yet waits for a retry
\* after at least two failures in a row (the second one after a token reset).
C10_Witness ==
    \E id \in DOMAIN room :
        /\ room[id].currentQuestion = NoQuestion
        /\ pending[id].retries > 0
        /\ id \in DOMAIN sessionTokens
        /\ sessionTokens[id] = "tokB"

\* A continuation of the room's question cycle runs: a response of the
\* supplier arrives or a scheduled call of requestNewQuestion fires.
FetchContinues(id) ==
    \/ \E tok \in TokenValues : TokenResponse(id, tok)
    \/ TokenFailure(id)
    \/ \E response \in RawResponses, choices \in ShuffleChoices :
           QuestionResponse(id, response, choices)
    \/ QuestionTokenExhausted(id)
    \/ QuestionFailure(id)
    \/ RequestFires(id)

\* C11: a continuation of the question cycle that runs for a room no longer
\* in the registry is a no-op: it leaves the room's currentQuestion,
\* secondsLeft and acceptAnswers alone, starts no countdown and sends no
\* request to the supplier.
C11_DeletedRoomContinuationNoOp ==
    [][\A id \in DOMAIN room :
        (id \notin rooms /\ FetchContinues(id)) =>
            /\ room'[id].currentQuestion = room[id].currentQuestion
            /\ room'[id].secondsLeft = room[id].secondsLeft
            /\ room'[id].acceptAnswers = room[id].acceptAnswers
            /\ pending'[id].ticks <= pending[id].ticks
            /\ pending'[id].retries <= pending[id].retries
            /\ pending'[id].fetch.stage \in {"idle", pending[id].fetch.stage}]_vars

\* C12: the token cache holds entries only for rooms in the registry.
C12_TokenCacheOnlyLiveRooms == DOMAIN sessionTokens \subseteq rooms

\* C13: a step that deletes a room leaves no countdown timeout pending for
\* it, takes it out of the registry and publishes DELETE_ROOM once; and no
\* countdown tick runs for a room that is not in the registry.
C13_DeleteCancelsCountdown ==
    [][\A id \in DOMAIN room :
        /\ (id \in rooms /\ id \notin rooms') =>
              /\ pending'[id].ticks = 0
              /\ hist'[id].deleted = hist[id].deleted + 1
        /\ id \notin rooms => ~TimerFires(id)]_vars

\* The accuracy ratio of entry a is defined and higher than that of b.
HigherRatio(a, b) ==
    /\ Graded(a)
    /\ Graded(b)
    /\ a.questionsRight * (b.questionsRight + b.questionsWrong)
           > b.questionsRight * (a.questionsRight + a.questionsWrong)

\* C14: compareStats puts an entry with more points first, and of two entries
\* with equal points the one with the higher accuracy ratio; the ranking the
\* final sort returns holds the entries it was given, every entry before all
\* entries with fewer points and, among equal points, before all entries
\* with a lower ratio.
C14_PointsThenRatio ==
    /\ (call.fn = "compareStats" /\ call.returned # <<>>) =>
          LET a == call.args[1]
              b == call.args[2]
              r == call.returned[1]
          IN  /\ a.points > b.points => r = -1
              /\ a.points < b.points => r = 1
              /\ (a.points = b.points /\ HigherRatio(a, b)) => r = -1
              /\ (a.points = b.points /\ HigherRatio(b, a)) => r = 1
    /\ (call.fn = "sort" /\ call.returned # <<>>) =>
          LET ranking == call.returned[1]
          IN  /\ Len(ranking) = Len(call.args)
              /\ \A i \in 1..Len(call.args) :
                    \E j \in 1..Len(ranking) : ranking[j] = call.args[i]
              /\ \A i, j \in 1..Len(ranking) :
                    i < j =>
                        /\ ranking[i].points >= ranking[j].points
                        /\ ranking[i].points = ranking[j].points =>
                               ~HigherRatio(ranking[j], ranking[i])

\* C14 witness: the final sort was given {points 100, right 1, wrong 1}
\* before {points 100, right 2, wrong 0} and has returned them the other way
\* round.
C14_Witness ==
    /\ call.fn = "sort"
    /\ call.returned # <<>>
    /\ Len(call.args) = 2
    /\ call.args[1] = [nickname |-> "alice", points |-> 100,
                       questionsRight |-> 1, questionsWrong |-> 1]
    /\ call.args[2] = [nickname |-> "bob", points |-> 100,
                       questionsRight |-> 2, questionsWrong |-> 0]
    /\ call.returned[1] = <<call.args[2], call.args[1]>>

GradingPass(id) == TimerFires(id) /\ room[id].secondsLeft = 0

\* C16: in the grading pass of a room that allows skips, a member without a
\* selection gets pointsChange 0 and one more wrong answer, points and right
\* answers stay; and if the room's questionCount is 1 the pass ends the game
\* and 'game over' is sent.
C16_SkipGrading ==
    [][\A id \in DOMAIN room :
        (GradingPass(id) /\ room[id].config.canSkipQuestions) =>
            /\ \A i \in 1..Len(room[id].users) :
                  LET u == room[id].users[i]
                  IN  Stats(id, u).selectedAnswerIndex = -1 =>
                          room'[id].userStats[u] =
                              [Stats(id, u) EXCEPT !.pointsChange = 0,
                                                   !.questionsWrong = @ + 1]
            /\ room[id].config.questionCount = 1 =>
                  /\ ~hist[id].gameOverSent
                  /\ hist'[id].gameOverSent
                  /\ isGameOver(room'[id])]_vars

\* C16 witness: a one-question room that allows skips is game over and has a
\* member who made no selection and was graded as a skip.
C16_Witness ==
    \E id \in DOMAIN room, u \in Users :
        /\ room[id].config.canSkipQuestions
        /\ room[id].config.questionCount = 1
        /\ hist[id].gameOverSent
        /\ u \in DOMAIN room[id].userStats
        /\ Stats(id, u).pointsChange = 0
        /\ Stats(id, u).questionsWrong = 1
        /\ Stats(id, u).questionsRight = 0

\* C17: the grading of a member that is not a skip adds the question's point
\* value and one right answer if the selection is the correct index, and
\* otherwise takes the value off, not below 0, and adds one wrong answer;
\* the value is 10, 25, 50 for easy, medium, hard and 0 for anything else.
\* Skip or not, the two counters together go up by exactly 1.
C17_GradingByPointValue ==
    (call.fn = "grade" /\ call.returned # <<>>) =>
        LET old  == call.args[1]
            q    == call.args[2]
            new  == call.returned[1]
            skip == old.selectedAnswerIndex = -1 /\ call.args[3]
            v    == CASE q.difficulty = "easy"   -> 10
                      [] q.difficulty = "medium" -> 25
                      [] q.difficulty = "hard"   -> 50
                      [] OTHER                   -> 0
        IN  /\ (~skip /\ old.selectedAnswerIndex = q.correctAnswerIndex) =>
                  /\ new.points = old.points + v
                  /\ new.questionsRight = old.questionsRight + 1
                  /\ new.questionsWrong = old.questionsWrong
            /\ (~skip /\ old.selectedAnswerIndex # q.correctAnswerIndex) =>
                  /\ new.points = (IF old.points - v < 0 THEN 0 ELSE old.points - v)
                  /\ new.questionsWrong = old.questionsWrong + 1
                  /\ new.questionsRight = old.questionsRight
            /\ new.questionsRight - old.questionsRight \in {0, 1}
            /\ new.questionsWrong - old.questionsWrong \in {0, 1}
            /\ (new.questionsRight - old.questionsRight)
                   + (new.questionsWrong - old.questionsWrong) = 1

\* C17 witness: a member with 20 points and no selection, in a room that
\* does not allow skips, was graded on a medium question: 0 points, one
\* more wrong answer.
C17_Witness ==
    /\ call.fn = "grade"
    /\ call.returned # <<>>
    /\ ~call.args[3]
    /\ call.args[1].selectedAnswerIndex = -1
    /\ call.args[1].points = 20
    /\ call.args[2].difficulty = "medium"
    /\ call.returned[1].points = 0
    /\ call.returned[1].pointsChange = -25
    /\ call.returned[1].questionsWrong = call.args[1].questionsWrong + 1

Leaves(u, id) == userRoom[u] = id /\ userRoom'[u] # id

\* C19: the step in which a member leaves a game room removes the member's
\* statistics and either deletes the room, publishing DELETE_ROOM and
\* nothing else, if the room is empty now and deleteOnLastUser is set, or
\* else publishes UPDATE_ROOM and nothing else and leaves the room in the
\* registry.
C19_LeaveDeletesOrUpdates ==
    [][\A u \in Users, id \in DOMAIN room :
        Leaves(u, id) =>
            /\ u \notin DOMAIN room'[id].userStats
            /\ IF Len(room'[id].users) = 0 /\ room[id].deleteOnLastUser
               THEN /\ id \notin rooms'
                    /\ hist'[id].published = <<"deleteRoom">>
               ELSE /\ id \in rooms'
                    /\ hist'[id].published = <<"updateRoom">>]_vars

\* C20: every member's selectedAnswerIndex is -1 or, in a room that has a
\* current question, an index of that question's answers.
C20_SelectionIsAnswerIndex ==
    \A id \in DOMAIN room :
        \A u \in DOMAIN room[id].userStats :
            \/ Stats(id, u).selectedAnswerIndex = -1
            \/ room[id].currentQuestion = NoQuestion
            \/ /\ 0 <= Stats(id, u).selectedAnswerIndex
               /\ Stats(id, u).selectedAnswerIndex < Len(room[id].currentQuestion.answers)

\* How often text x occurs in the list.
CountOf(list, x) == Cardinality({ i \in 1..Len(list) : list[i] = x })

\* C21: the normalised question's answers are a permutation of the record's
\* incorrect answers with the correct answer appended, and its
\* correctAnswerIndex is the first position that holds the correct answer's
\* text, whatever the shuffle draws.
C21_ShuffleKeepsAnswers ==
    (call.fn = "normalize" /\ call.returned # <<>>) =>
        LET response == call.args[1]
            original == Append(response.incorrect_answers, response.correct_answer)
            q        == call.returned[1]
            index    == q.correctAnswerIndex
        IN  /\ Len(q.answers) = Len(original)
            /\ \A x \in AnswerTexts : CountOf(q.answers, x) = CountOf(original, x)
            /\ 0 <= index
            /\ index < Len(q.answers)
            /\ q.answers[index + 1] = response.correct_answer
            /\ \A k \in 1..index : q.answers[k] # response.correct_answer

\* C21 witness: a record of three different texts was shuffled so that the
\* correct answer, appended last, has moved to the front.
C21_Witness ==
    /\ call.fn = "normalize"
    /\ call.returned # <<>>
    /\ call.args[1].correct_answer = "True"
    /\ call.args[1].incorrect_answers = <<"False", "Maybe">>
    /\ call.returned[1].answers = <<"True", "Maybe", "False">>
    /\ call.returned[1].correctAnswerIndex = 0

\* C22: a room's questionsAnswered goes up by exactly 1 in its grading pass
\* and is left as it is by every other step.
C22_QuestionsAnsweredFrame ==
    [][\A id \in DOMAIN room :
        room'[id].questionsAnswered =
            IF GradingPass(id) THEN room[id].questionsAnswered + 1
            ELSE room[id].questionsAnswered]_vars

\* C22 witness: a room that has had members has counted two questions in
\* two grading passes.
C22_Witness ==
    \E id \in DOMAIN room :
        /\ room[id].questionsAnswered = 2
        /\ hist[id].gradings = 2
        /\ Len(room[id].users) >= 1

\* C23: a room that is game over does not accept answers, and no step
\* changes its questionsAnswered or currentQuestion, sets acceptAnswers,
\* runs a countdown tick for it, or sends or schedules a request for it.
C23_GameOverTerminal ==
    [][\A id \in DOMAIN room :
        isGameOver(room[id]) =>
            /\ ~room[id].acceptAnswers
            /\ ~room'[id].acceptAnswers
            /\ room'[id].questionsAnswered = room[id].questionsAnswered
            /\ room'[id].currentQuestion = room[id].currentQuestion
            /\ isGameOver(room'[id])
            /\ ~TimerFires(id)
            /\ ~FetchContinues(id)
            /\ pending'[id] = [fetch |-> IdleFetch, retries |-> 0, ticks |-> 0]]_vars

\* C23 witness: a room whose game is over and from which a member has left
\* since, another one still being in it.
C23_Witness ==
    \E id \in DOMAIN room :
        /\ isGameOver(room[id])
        /\ hist[id].gameOverSent
        /\ hist[id].updatedAfterDelete
        /\ Len(room[id].users) = 1

\* C24: while the countdown of a question is running, secondsLeft = 0 (the
\* value broadcast last) goes with acceptAnswers = false.
C24_ZeroMeansLocked ==
    \A id \in DOMAIN room :
        (QuestionActive(id) /\ room[id].secondsLeft = 0) => ~room[id].acceptAnswers

\* C25: every room has had its 'created' event, has had at most one 'deleted'
\* event, and has had no 'updated' event after a 'deleted' one.
C25_LifecycleOrder ==
    \A id \in DOMAIN room :
        /\ hist[id].created
        /\ hist[id].deleted <= 1
        /\ ~hist[id].updatedAfterDelete

\* What is pending for a room: a request to the supplier in flight, the
\* scheduled calls of requestNewQuestion and the scheduled countdown ticks.
Activities(id) ==
    (IF pending[id].fetch.stage # "idle" THEN 1 ELSE 0)
        + pending[id].retries + pending[id].ticks

\* C26: before and after every step a room has at most one pending activity
\* (request in flight, scheduled call of requestNewQuestion, scheduled
\* countdown tick); the step that ends a request leaves exactly one scheduled
\* call or tick behind; and a question arrives only while no countdown tick
\* is pending, so that a running countdown keeps its question.
C26_SingleActivity ==
    [][\A id \in DOMAIN room :
        /\ Activities(id) <= 1
        /\ Activities(id)' <= 1
        /\ (pending[id].fetch.stage # "idle" /\ pending'[id].fetch.stage = "idle")
               => pending'[id].retries + pending'[id].ticks = 1
        /\ (\E response \in RawResponses, choices \in ShuffleChoices :
               QuestionResponse(id, response, choices)) => pending[id].ticks = 0
        /\ pending[id].ticks > 0 =>
               \/ room'[id].currentQuestion = room[id].currentQuestion
               \/ TimerFires(id)]_vars

\* C26 witness: a room with members is in its second round, the request for
\* its next question in flight as its only activity.
C26_Witness ==
    \E id \in DOMAIN room :
        /\ hist[id].gradings >= 1
        /\ Len(room[id].users) >= 1
        /\ pending[id].fetch.stage = "question"
        /\ Activities(id) = 1

\* C27: in every room (maxSeconds >= 1 in all of them) secondsLeft is within
\* 0..maxSeconds; a countdown tick that finds secondsLeft > 0 takes 1 off,
\* grades nothing and leaves the next tick pending; the grading pass is the
\* firing number maxSeconds since the question was set; no other step than
\* a tick or the arrival of a question touches secondsLeft, joins, leaves
\* and answers included; and, timeouts firing, a question whose countdown
\* runs in a room of the registry is graded unless the room is deleted first.
C27_CountdownReachesGrading ==
    /\ [][\A id \in DOMAIN room :
            /\ room[id].config.maxSeconds >= 1
            /\ room[id].secondsLeft \in 0..room[id].config.maxSeconds
            /\ (TimerFires(id) /\ room[id].secondsLeft > 0) =>
                   /\ room'[id].secondsLeft = room[id].secondsLeft - 1
                   /\ hist'[id].gradings = hist[id].gradings
                   /\ pending'[id].ticks = 1
            /\ GradingPass(id) =>
                   /\ hist'[id].firings = room[id].config.maxSeconds
                   /\ hist'[id].gradings = hist[id].gradings + 1
            /\ hist'[id].gradings # hist[id].gradings => GradingPass(id)
            /\ room'[id].secondsLeft # room[id].secondsLeft =>
                   \/ TimerFires(id)
                   \/ \E response \in RawResponses, choices \in ShuffleChoices :
                          QuestionResponse(id, response, choices)]_vars
    /\ \A id \in RoomIds :
          (id \in rooms /\ QuestionActive(id))
              ~> \/ id \notin rooms
                 \/ /\ ~room[id].acceptAnswers
                    /\ pending[id].ticks = 0
                    /\ hist[id].firings = room[id].config.maxSeconds

\* C27 witness: the second question of a room has been graded, maxSeconds
\* firings after it was set, with a member who answered during a countdown.
C27_Witness ==
    \E id \in DOMAIN room :
        /\ hist[id].gradings = 2
        /\ hist[id].firings = room[id].config.maxSeconds
        /\ ~room[id].acceptAnswers
        /\ pending[id].ticks = 0
        /\ \E u \in DOMAIN room[id].userStats :
               Stats(id, u).questionsRight + Stats(id, u).questionsWrong >= 1

\* The nicknames of the members of room id.
MemberNames(id) == { room[id].users[i] : i \in 1..Len(room[id].users) }

====
